---- MODULE Spec2Model ----
(***************************************************************************)
(* BoudyPilot (src/app.py): a Streamlit multi-chat front end around a      *)
(* LangGraph router  decide -> extract_email | search_node -> llm_call.    *)
(*                                                                         *)
(* Text is modelled as a sequence of one-character strings so that strip,  *)
(* upper, startswith, join and f-string formatting are computed, not       *)
(* assumed.  A message is a record [cls, content]; its .type is "human",   *)
(* "ai" or "system".                                                       *)
(***************************************************************************)
EXTENDS Integers, Sequences, FiniteSets, TLC

(***************************************************************************)
(* Bounds of the model.                                                    *)
(***************************************************************************)
\* number of turns submitted in one behaviour
MaxTurns == 2
\* length of the transcripts the router is invoked on by itself
MaxScanLen == 3
\* length of the transcripts the store is saved and loaded with
MaxStoreLen == 2

(***************************************************************************)
(* Text helpers (Python str methods used by the program).                  *)
(***************************************************************************)
\* characters str.strip() removes from both ends
Whitespace == {" ", "\n", "\t"}

\* str.upper() on one character, for the letters the model's inputs use
UpperOf(c) ==
    CASE c = "a" -> "A" [] c = "c" -> "C" [] c = "d" -> "D" [] c = "e" -> "E"
      [] c = "h" -> "H" [] c = "i" -> "I" [] c = "l" -> "L" [] c = "m" -> "M"
      [] c = "n" -> "N" [] c = "o" -> "O" [] c = "q" -> "Q" [] c = "r" -> "R"
      [] c = "s" -> "S" [] c = "u" -> "U" [] c = "w" -> "W" [] c = "y" -> "Y"
      [] c = "b" -> "B"
      [] OTHER -> c

upper(s) == [i \in 1..Len(s) |-> UpperOf(s[i])]

\* str.strip(): drop leading and trailing whitespace
strip(s) ==
    LET keep == {i \in 1..Len(s) : s[i] \notin Whitespace}
    IN  IF keep = {} THEN << >>
        ELSE LET lo == CHOOSE i \in keep : \A j \in keep : i <= j
                 hi == CHOOSE i \in keep : \A j \in keep : j <= i
             IN  SubSeq(s, lo, hi)

\* str.startswith(prefix)
startswith(s, p) == Len(p) <= Len(s) /\ SubSeq(s, 1, Len(p)) = p

\* str.replace(old, new): every occurrence, scanning from the left
RECURSIVE replace(_, _, _)
replace(s, old, new) ==
    IF Len(s) < Len(old) THEN s
    ELSE IF startswith(s, old)
    THEN new \o replace(SubSeq(s, Len(old) + 1, Len(s)), old, new)
    ELSE <<s[1]>> \o replace(Tail(s), old, new)

\* str(n) for a non-negative integer
Digit(d) == CASE d = 0 -> "0" [] d = 1 -> "1" [] d = 2 -> "2" [] d = 3 -> "3"
              [] d = 4 -> "4" [] d = 5 -> "5" [] d = 6 -> "6" [] d = 7 -> "7"
              [] d = 8 -> "8" [] d = 9 -> "9"

RECURSIVE str(_)
str(n) == IF n < 10 THEN <<Digit(n)>> ELSE str(n \div 10) \o <<Digit(n % 10)>>

\* sep.join(parts)
RECURSIVE join(_, _)
join(sep, parts) ==
    IF parts = << >> THEN << >>
    ELSE IF Len(parts) = 1 THEN parts[1]
    ELSE parts[1] \o sep \o join(sep, Tail(parts))

(***************************************************************************)
(* Messages.                                                               *)
(***************************************************************************)
\* a message is an object of one of three classes with a text content
HumanMessage(c)  == [cls |-> "HumanMessage",  content |-> c]
AIMessage(c)     == [cls |-> "AIMessage",     content |-> c]
SystemMessage(c) == [cls |-> "SystemMessage", content |-> c]

\* m.type, the class attribute of the three message classes
type(m) == CASE m.cls = "HumanMessage" -> "human"
             [] m.cls = "AIMessage" -> "ai"
             [] m.cls = "SystemMessage" -> "system"

\* the reducer of MessagesState.messages
_add_messages(left, right) == left \o right

\* last_user without reversed(): the first Human message
last_user_first(msgs) ==
    LET hs == {i \in 1..Len(msgs) : msgs[i].cls = "HumanMessage"}
    IN  IF hs = {} THEN << >>
        ELSE msgs[CHOOSE i \in hs : \A j \in hs : i <= j].content

\* last_user without the isinstance test: the last message
last_user_any_class(msgs) ==
    IF msgs = << >> THEN << >> ELSE msgs[Len(msgs)].content

\* next((m.content for m in reversed(messages) if isinstance(m, HumanMessage)), "")
last_user(msgs) ==
    LET hs == {i \in 1..Len(msgs) : msgs[i].cls = "HumanMessage"}
    IN  IF hs = {} THEN << >>
        ELSE msgs[CHOOSE i \in hs : \A j \in hs : j <= i].content

(***************************************************************************)
(* Fixed texts of the program.                                             *)
(***************************************************************************)
\* "SEND_EMAIL"
SEND_EMAIL == <<"S", "E", "N", "D", "_", "E", "M", "A", "I", "L">>
\* "SEARCH_REQUIRED"
SEARCH_REQUIRED == <<"S", "E", "A", "R", "C", "H", "_", "R", "E", "Q", "U", "I", "R", "E", "D">>
\* "NO_SEARCH"
NO_SEARCH == <<"N", "O", "_", "S", "E", "A", "R", "C", "H">>
\* the list the classifier's answer is tested against
Labels == {SEND_EMAIL, SEARCH_REQUIRED, NO_SEARCH}

\* "SEND_EMAIL_ERROR:"
ErrPrefix == <<"S", "E", "N", "D", "_", "E", "M", "A", "I", "L", "_", "E", "R", "R", "O", "R", ":">>
\* "SEND_EMAIL_ERROR: Could not extract JSON from LLM."
ErrNoJson == <<"S", "E", "N", "D", "_", "E", "M", "A", "I", "L", "_", "E", "R", "R", "O", "R", ":", " ", "C", "o", "u", "l", "d", " ", "n", "o", "t", " ", "e", "x", "t", "r", "a", "c", "t", " ", "J", "S", "O", "N", " ", "f", "r", "o", "m", " ", "L", "L", "M", ".">>
\* "SEND_EMAIL_ERROR: JSON parse error: "
ErrParsePrefix == <<"S", "E", "N", "D", "_", "E", "M", "A", "I", "L", "_", "E", "R", "R", "O", "R", ":", " ", "J", "S", "O", "N", " ", "p", "a", "r", "s", "e", " ", "e", "r", "r", "o", "r", ":", " ">>
\* "SEND_EMAIL_ERROR: Missing or invalid 'to' email address."
ErrRecipient == <<"S", "E", "N", "D", "_", "E", "M", "A", "I", "L", "_", "E", "R", "R", "O", "R", ":", " ", "M", "i", "s", "s", "i", "n", "g", " ", "o", "r", " ", "i", "n", "v", "a", "l", "i", "d", " ", "'", "t", "o", "'", " ", "e", "m", "a", "i", "l", " ", "a", "d", "d", "r", "e", "s", "s", ".">>
\* "Email sent successfully (status "  ...  ")."
SentPrefix == <<"E", "m", "a", "i", "l", " ", "s", "e", "n", "t", " ", "s", "u", "c", "c", "e", "s", "s", "f", "u", "l", "l", "y", " ", "(", "s", "t", "a", "t", "u", "s", " ">>
SentSuffix == <<")", ".">>
\* "Error sending email: "
SendErrPrefix == <<"E", "r", "r", "o", "r", " ", "s", "e", "n", "d", "i", "n", "g", " ", "e", "m", "a", "i", "l", ":", " ">>
\* "SEARCH_RESULT: " (marker and the blank of the f-string)
SearchPrefix == <<"S", "E", "A", "R", "C", "H", "_", "R", "E", "S", "U", "L", "T", ":", " ">>
\* "SEARCH_RESULT:"
SearchMarker == <<"S", "E", "A", "R", "C", "H", "_", "R", "E", "S", "U", "L", "T", ":">>
\* "You are a precise AI assistant. Do NOT hallucinate. If unsure, respond: 'I am not sure.'"
SystemInstruction == <<"Y", "o", "u", " ", "a", "r", "e", " ", "a", " ", "p", "r", "e", "c", "i", "s", "e", " ", "A", "I", " ", "a", "s", "s", "i", "s", "t", "a", "n", "t", ".", " ", "D", "o", " ", "N", "O", "T", " ", "h", "a", "l", "l", "u", "c", "i", "n", "a", "t", "e", ".", " ", "I", "f", " ", "u", "n", "s", "u", "r", "e", ",", " ", "r", "e", "s", "p", "o", "n", "d", ":", " ", "'", "I", " ", "a", "m", " ", "n", "o", "t", " ", "s", "u", "r", "e", ".", "'">>
\* "Here is verified search info:\n"
Preamble == <<"H", "e", "r", "e", " ", "i", "s", " ", "v", "e", "r", "i", "f", "i", "e", "d", " ", "s", "e", "a", "r", "c", "h", " ", "i", "n", "f", "o", ":", "\n">>
\* "No Subject"
NoSubject == <<"N", "o", " ", "S", "u", "b", "j", "e", "c", "t">>

(***************************************************************************)
(* Inputs: what the user types and what the three capabilities answer.     *)
(***************************************************************************)
\* st.chat_input values (a non-empty text; "if user_input:" drops the rest)
\* "hi", "SEARCH_RESULT:x"
UserTexts == { <<"h", "i">>,
               <<"S", "E", "A", "R", "C", "H", "_", "R", "E", "S", "U", "L", "T", ":", "x">> }

\* raw texts the classifier call can return
\* "NO_SEARCH", " send_email\n", "Search_Required", "SEND_EMAIL now", "maybe", ""
RawDecisions == { <<"N", "O", "_", "S", "E", "A", "R", "C", "H">>,
                  <<" ", "s", "e", "n", "d", "_", "e", "m", "a", "i", "l", "\n">>,
                  <<"S", "e", "a", "r", "c", "h", "_", "R", "e", "q", "u", "i", "r", "e", "d">>,
                  <<"S", "E", "N", "D", "_", "E", "M", "A", "I", "L", " ", "n", "o", "w">>,
                  <<"m", "a", "y", "b", "e">>,
                  << >> }

\* texts the answering call can return: "4", "I am not sure."
Answers == { <<"4">>,
             <<"I", " ", "a", "m", " ", "n", "o", "t", " ", "s", "u", "r", "e", ".">> }

\* result["results"] of tavily.search, as the list of the "content" fields:
\* [], ["s1", "s2"]
SearchResults == { << >>,
                   << <<"s", "1">>, <<"s", "2">> >> }

\* response.status_code values of a SendGrid send that returns
StatusCodes == {202}
\* str(e) of a SendGrid send that raises: "HTTP Error 401"
SendErrors == { <<"H", "T", "T", "P", " ", "E", "r", "r", "o", "r", " ", "4", "0", "1">> }

\* Python values of the parsed payload's fields
PyStr(s) == [t |-> "str", s |-> s]
PyInt(n) == [t |-> "int", n |-> n]
PyNone   == [t |-> "none"]
\* a parse result: a dict (a function from key to value), another literal, or an error
PyDict(d)  == [ok |-> TRUE, kind |-> "dict", d |-> d]
PySet      == [ok |-> TRUE, kind |-> "set"]
PyError(e) == [ok |-> FALSE, e |-> e]
EmptyDict  == [k \in {} |-> PyNone]

\* brace-delimited spans of the extraction answers
\* {"to":"a@b"}
SpanOk == <<"{", "\"", "t", "o", "\"", ":", "\"", "a", "@", "b", "\"", "}">>
\* {"to":"ab"}
SpanNoAt == <<"{", "\"", "t", "o", "\"", ":", "\"", "a", "b", "\"", "}">>
\* {}
SpanEmpty == <<"{", "}">>
\* {"to":5}
SpanInt == <<"{", "\"", "t", "o", "\"", ":", "5", "}">>
\* {"to":null}
SpanNull == <<"{", "\"", "t", "o", "\"", ":", "n", "u", "l", "l", "}">>
\* {"to":""}
SpanBlank == <<"{", "\"", "t", "o", "\"", ":", "\"", "\"", "}">>
\* {'to':'a@b','subject':'s','content':'c'}
SpanSingle == <<"{", "'", "t", "o", "'", ":", "'", "a", "@", "b", "'", ",", "'", "s", "u", "b", "j", "e", "c", "t", "'", ":", "'", "s", "'", ",", "'", "c", "o", "n", "t", "e", "n", "t", "'", ":", "'", "c", "'", "}">>
\* {x}
SpanBad == <<"{", "x", "}">>
\* {1}
SpanSet == <<"{", "1", "}">>

\* "a@b", "ab", "s", "c"
AddrOk == <<"a", "@", "b">>
AddrNoAt == <<"a", "b">>
SubjS == <<"s">>
BodyC == <<"c">>
\* str(e) of the two parse failures
\* "Expecting property name enclosed in double quotes: line 1 column 2 (char 1)"
JsonErrText == <<"E", "x", "p", "e", "c", "t", "i", "n", "g", " ", "p", "r", "o", "p", "e", "r", "t", "y", " ", "n", "a", "m", "e", " ", "e", "n", "c", "l", "o", "s", "e", "d", " ", "i", "n", " ", "d", "o", "u", "b", "l", "e", " ", "q", "u", "o", "t", "e", "s", ":", " ", "l", "i", "n", "e", " ", "1", " ", "c", "o", "l", "u", "m", "n", " ", "2", " ", "(", "c", "h", "a", "r", " ", "1", ")">>
\* the addresses the interpreter can give the node object ast.literal_eval rejects;
\* they differ from run to run
ObjectAddresses == { <<"0", "x", "7", "f", "e", "6", "5", "7", "6", "5", "d", "8", "1", "0">>,
                     <<"0", "x", "7", "f", "4", "4", "8", "e", "7", "a", "c", "e", "2", "0">> }
\* "malformed node or string on line 1: <ast.Name object at 0x...>"
LiteralErrText(at) ==
    <<"m", "a", "l", "f", "o", "r", "m", "e", "d", " ", "n", "o", "d", "e", " ", "o", "r", " ", "s", "t", "r", "i", "n", "g", " ", "o", "n", " ", "l", "i", "n", "e", " ", "1", ":", " ", "<", "a", "s", "t", ".", "N", "a", "m", "e", " ", "o", "b", "j", "e", "c", "t", " ", "a", "t", " ">>
    \o at \o <<">">>

\* json.loads(json_text), for the spans above
json_loads(t) ==
    CASE t = SpanOk    -> PyDict("to" :> PyStr(AddrOk))
      [] t = SpanNoAt  -> PyDict("to" :> PyStr(AddrNoAt))
      [] t = SpanEmpty -> PyDict(EmptyDict)
      [] t = SpanInt   -> PyDict("to" :> PyInt(5))
      [] t = SpanNull  -> PyDict("to" :> PyNone)
      [] t = SpanBlank -> PyDict("to" :> PyStr(<< >>))
      [] OTHER         -> PyError(JsonErrText)

\* ast.literal_eval(json_text), for the spans json.loads rejects; at is the address
\* of the rejected node, which str(e) shows
literal_eval(t, at) ==
    CASE t = SpanSingle -> PyDict(("to" :> PyStr(AddrOk)) @@ ("subject" :> PyStr(SubjS))
                                    @@ ("content" :> PyStr(BodyC)))
      [] t = SpanSet    -> PySet
      [] OTHER          -> PyError(LiteralErrText(at))

\* texts the extraction call can return
\* "sorry", "}{", " Sure: {"to":"a@b"} .\n", and the bare spans
ExtractOutputs == { <<"s", "o", "r", "r", "y">>, <<"}", "{">>,
                    <<" ", "S", "u", "r", "e", ":", " ", "{", "\"", "t", "o", "\"", ":", "\"", "a", "@", "b", "\"", "}", " ", ".", "\n">>,
                    SpanOk, SpanNoAt, SpanEmpty, SpanInt, SpanNull, SpanBlank,
                    SpanSingle, SpanBad, SpanSet }

\* re.search(r"\{.*\}", llm_output, re.DOTALL): the span from the first "{" to the
\* last "}", or no match
HasBraceSpan(t) ==
    \E i, j \in 1..Len(t) : i < j /\ t[i] = "{" /\ t[j] = "}"
BraceSpan(t) ==
    LET lo == CHOOSE i \in 1..Len(t) : t[i] = "{" /\ \A k \in 1..Len(t) : t[k] = "{" => i <= k
        hi == CHOOSE j \in 1..Len(t) : t[j] = "}" /\ \A k \in 1..Len(t) : t[k] = "}" => k <= j
    IN  SubSeq(t, lo, hi)

\* the two-stage parse of lines 155-163
parse_payload(t, at) ==
    LET strict == json_loads(t)
    IN  IF strict.ok THEN strict ELSE literal_eval(t, at)

\* data.get(key, default)
dict_get(d, key, default) == IF key \in DOMAIN d THEN d[key] ELSE default

\* not v
falsy(v) == \/ v.t = "none"
            \/ v.t = "str" /\ v.s = << >>
            \/ v.t = "int" /\ v.n = 0

\* '"@" not in to_email' raises TypeError unless to_email is iterable
at_test_raises(v) == v.t \in {"int", "none"}
\* "@" not in to_email, for a text
lacks_at(v) == \A i \in 1..Len(v.s) : v.s[i] # "@"

\* the test of line 170: True, False, or a raise
recipient_invalid(v) == falsy(v) \/ (~at_test_raises(v) /\ lacks_at(v))
recipient_raises(v) == ~falsy(v) /\ at_test_raises(v)

(***************************************************************************)
(* Conversations and the durable store.                                    *)
(***************************************************************************)
\* str(uuid.uuid4()) values, shortened to eight characters:
\* "a1b2c3d4", "e5f6a7b8"
ChatIds == { <<"a", "1", "b", "2", "c", "3", "d", "4">>,
             <<"e", "5", "f", "6", "a", "7", "b", "8">> }

\* f"Chat {chat_id[:6]}"
DefaultTitle(chat_id) == <<"C", "h", "a", "t", " ">> \o SubSeq(chat_id, 1, 6)

\* texts typed into "Rename Current Chat": "Work"
Titles == { <<"W", "o", "r", "k">> }

\* the dict with no key (a missing file loads as {})
NoChats == [c \in {} |-> << >>]

\* save_chats: the JSON document written to CHATS_FILE
save_chats(cs) ==
    [c \in DOMAIN cs |->
        [title    |-> cs[c].title,
         messages |-> [i \in 1..Len(cs[c].messages) |->
                          [type    |-> type(cs[c].messages[i]),
                           content |-> cs[c].messages[i].content]]]]

\* load_chats with the "ai" branch missing
load_chats_no_ai(data) ==
    [c \in DOMAIN data |->
        [messages |-> [i \in 1..Len(data[c].messages) |->
                          IF data[c].messages[i].type = "human"
                          THEN HumanMessage(data[c].messages[i].content)
                          ELSE SystemMessage(data[c].messages[i].content)],
         title    |-> IF "title" \in DOMAIN data[c] THEN data[c].title
                      ELSE DefaultTitle(c)]]

\* load_chats: the conversations rebuilt from the JSON document
load_chats(data) ==
    [c \in DOMAIN data |->
        [messages |-> [i \in 1..Len(data[c].messages) |->
                          IF data[c].messages[i].type = "human"
                          THEN HumanMessage(data[c].messages[i].content)
                          ELSE IF data[c].messages[i].type = "ai"
                          THEN AIMessage(data[c].messages[i].content)
                          ELSE SystemMessage(data[c].messages[i].content)],
         title    |-> IF "title" \in DOMAIN data[c] THEN data[c].title
                      ELSE DefaultTitle(c)]]

(***************************************************************************)
(* The router (the compiled StateGraph).                                   *)
(*                                                                         *)
(* The graph keeps one channel, messages, whose reducer is _add_messages.  *)
(* A write w to the channel sets it to _add_messages(channel, w).  A node  *)
(* is called with state["messages"] bound to the channel's own list, so    *)
(* the node's in-place append is seen by the channel before the node's     *)
(* returned state is written to it.                                        *)
(***************************************************************************)
\* invoke_input handing the router the new message alone
invoke_input_new_only(input) == _add_messages(<< >>, <<input[Len(input)]>>)

\* agent.invoke(input): the input is the first write, to the empty channel
invoke_input(input) == _add_messages(<< >>, input)

\* state["messages"].append(msg); return state  -- followed by the channel write
node_return(channel, msg) ==
    LET state_messages == Append(channel, msg)
    IN  _add_messages(state_messages, state_messages)

\* decision_of with the email branch as the default
decision_of_default_email(raw) ==
    LET decision == upper(strip(raw))
    IN  IF decision \notin Labels THEN SEND_EMAIL ELSE decision

\* decision_of without the default of lines 115-116
decision_of_raw(raw) == upper(strip(raw))

\* lines 114-116: the label kept from the classifier's raw answer
decision_of(raw) ==
    LET decision == upper(strip(raw))
    IN  IF decision \notin Labels THEN NO_SEARCH ELSE decision

\* route with llm_call also wired after extract_email's label
route_email_to_answer(msgs) ==
    LET key == msgs[Len(msgs)].content
    IN  CASE key = SEND_EMAIL -> "Answer"
          [] key = SEARCH_REQUIRED -> "Search"
          [] key = NO_SEARCH -> "Answer"

\* route with NO_SEARCH wired back to decide
route_no_search_to_decide(msgs) ==
    LET key == msgs[Len(msgs)].content
    IN  CASE key = SEND_EMAIL -> "ExtractEmail"
          [] key = SEARCH_REQUIRED -> "Search"
          [] key = NO_SEARCH -> "Decide"
          [] OTHER -> "KeyError"

\* the conditional edge of "decide": lambda s: s["messages"][-1].content, then the
\* map; a key the map lacks raises KeyError
route(msgs) ==
    LET key == msgs[Len(msgs)].content
    IN  CASE key = SEND_EMAIL -> "ExtractEmail"
          [] key = SEARCH_REQUIRED -> "Search"
          [] key = NO_SEARCH -> "Answer"
          [] OTHER -> "KeyError"

\* what the SendGrid client does on sg.send: return a status code or raise
SendOutcomes == {[ok |-> TRUE, status_code |-> s] : s \in StatusCodes}
                \cup {[ok |-> FALSE, e |-> e] : e \in SendErrors}
\* no call was made
NoSend == [ok |-> FALSE, e |-> << >>]

\* send_email_tool without its except clause
send_email_tool_uncaught(outcome) ==
    IF outcome.ok
    THEN [kind |-> "return", text |-> SentPrefix \o str(outcome.status_code) \o SentSuffix]
    ELSE [kind |-> "raise"]

\* send_email_tool: both outcomes of the send become the returned text
send_email_tool(outcome) ==
    IF outcome.ok
    THEN [kind |-> "return", text |-> SentPrefix \o str(outcome.status_code) \o SentSuffix]
    ELSE [kind |-> "return", text |-> SendErrPrefix \o outcome.e]

\* lines 191-197: the prompt turns one message contributes
turns_of(m) ==
    (IF m.cls = "HumanMessage"
     THEN <<[role |-> "user", content |-> m.content]>> ELSE << >>)
    \o
    (IF startswith(m.content, SearchMarker)
     THEN <<[role |-> "system",
             content |-> Preamble \o strip(replace(m.content, SearchMarker, << >>))]>>
     ELSE << >>)

\* lines 189-198: clean_msgs, the prompt llm_call sends
RECURSIVE prompt_turns(_)
prompt_turns(msgs) ==
    IF msgs = << >> THEN << >> ELSE turns_of(Head(msgs)) \o prompt_turns(Tail(msgs))
clean_msgs(msgs) ==
    <<[role |-> "system", content |-> SystemInstruction]>> \o prompt_turns(msgs)

\* the newline of "\n".join
Newline == << "\n" >>
\* f"SEARCH_RESULT: {clean_summary}"
search_text(results) == SearchPrefix \o join(Newline, results)

(***************************************************************************)
(* State.                                                                  *)
(***************************************************************************)
VARIABLES
    chats,            \* st.session_state.chats: id -> [title, messages]
    chat_keys,        \* list(st.session_state.chats.keys()): the ids in insertion order
    current_chat_id,  \* st.session_state.current_chat_id
    store,            \* the content of CHATS_FILE: id -> [title, messages as (type, content)]
    pc,               \* position of the turn handler: idle, Start, a node, Done
    messages,         \* the router's messages channel during a turn
    turn,             \* record of the turn in progress or just ended
    nturns            \* turns submitted so far

vars == <<chats, chat_keys, current_chat_id, store, pc, messages, turn, nturns>>

NoTurn == [status |-> "none", chat |-> << >>, T |-> << >>, U |-> << >>,
           visited |-> << >>, appended |-> << >>, raw |-> << >>,
           classifier_input |-> << >>, query |-> << >>, extract |-> << >>,
           sends |-> << >>, outcome |-> NoSend, saved |-> NoChats,
           loaded |-> NoChats,
           extract_input |-> << >>, results |-> << >>, prompt |-> << >>,
           invokes |-> 0, gen |-> 0, searches |-> 0, error |-> "none"]

\* lines 66-80: no file yet, so one empty conversation with a fresh id
Init ==
    /\ \E new_id \in ChatIds :
          /\ chats = (new_id :> [title |-> DefaultTitle(new_id), messages |-> << >>])
          /\ chat_keys = <<new_id>>
          /\ current_chat_id = new_id
    /\ store = NoChats
    /\ pc = "idle"
    /\ messages = << >>
    /\ turn = NoTurn
    /\ nturns = 0

(***************************************************************************)
(* Sidebar operations (one script run each).                               *)
(***************************************************************************)
\* lines 236-242
Rename ==
    /\ pc = "idle"
    /\ \E new_title \in Titles :
          /\ new_title # chats[current_chat_id].title
          /\ chats' = [chats EXCEPT ![current_chat_id].title = new_title]
    /\ store' = save_chats(chats')
    /\ turn' = NoTurn
    /\ UNCHANGED <<chat_keys, current_chat_id, pc, messages, nturns>>

\* lines 244-248
NewChat ==
    /\ pc = "idle"
    /\ \E new_id \in ChatIds \ DOMAIN chats :
          /\ chats' = [c \in DOMAIN chats \cup {new_id} |->
                          IF c = new_id
                          THEN [title |-> DefaultTitle(new_id), messages |-> << >>]
                          ELSE chats[c]]
          /\ chat_keys' = Append(chat_keys, new_id)
          /\ current_chat_id' = new_id
    /\ turn' = NoTurn
    /\ UNCHANGED <<store, pc, messages, nturns>>

\* lines 250-254: a chat button has no key, only its label, the title; of the
\* conversations with one title the first of the loop takes the click
SwitchChat ==
    /\ pc = "idle"
    /\ \E i \in 1..Len(chat_keys) :
          LET chat_id == chat_keys[i]
          IN  /\ \A j \in 1..(i - 1) : chats[chat_keys[j]].title # chats[chat_id].title
              /\ chat_id # current_chat_id
              /\ current_chat_id' = chat_id
    /\ turn' = NoTurn
    /\ UNCHANGED <<chat_keys, chats, store, pc, messages, nturns>>

\* lines 256-259
ClearChat ==
    /\ pc = "idle"
    /\ chats' = [chats EXCEPT ![current_chat_id].messages = << >>]
    /\ store' = save_chats(chats')
    /\ turn' = NoTurn
    /\ UNCHANGED <<chat_keys, current_chat_id, pc, messages, nturns>>

(***************************************************************************)
(* A turn: lines 284-289, with agent.invoke unfolded into its node visits. *)
(***************************************************************************)
\* Raise with the router's list being the session's list
Raise_keeps_router_state(node, err, generated) ==
    /\ pc' = "idle"
    /\ messages' = << >>
    /\ turn' = [turn EXCEPT !.status = "aborted", !.error = err,
                            !.visited = Append(@, node),
                            !.gen = @ + generated]
    /\ chats' = [chats EXCEPT ![current_chat_id].messages = messages]
    /\ UNCHANGED <<chat_keys, current_chat_id, store, nturns>>

\* an exception leaves the script run: nothing after the raising call is executed
Raise(node, err, generated) ==
    /\ pc' = "idle"
    /\ messages' = << >>
    /\ turn' = [turn EXCEPT !.status = "aborted", !.error = err,
                            !.visited = Append(@, node),
                            !.gen = @ + generated]
    /\ UNCHANGED <<chat_keys, chats, current_chat_id, store, nturns>>

\* lines 284-286: the user's message is appended to the session's list
SubmitTurn ==
    /\ pc = "idle"
    /\ nturns < MaxTurns
    /\ \E user_input \in UserTexts :
          /\ chats' = [chats EXCEPT ![current_chat_id].messages =
                                        Append(@, HumanMessage(user_input))]
          /\ turn' = [NoTurn EXCEPT !.status = "running", !.chat = current_chat_id,
                                    !.T = chats[current_chat_id].messages,
                                    !.U = user_input]
    /\ pc' = "Start"
    /\ nturns' = nturns + 1
    /\ UNCHANGED <<chat_keys, current_chat_id, store, messages>>

\* line 287, entry: the input is written to the channel; START -> decide
Invoke ==
    /\ pc = "Start"
    /\ messages' = invoke_input(chats[current_chat_id].messages)
    /\ pc' = "Decide"
    /\ turn' = [turn EXCEPT !.invokes = @ + 1]
    /\ UNCHANGED <<chat_keys, chats, current_chat_id, store, nturns>>

\* decide_email_or_search, the classifier call returning raw
Decide ==
    /\ pc = "Decide"
    /\ \E raw \in RawDecisions :
          LET msg == SystemMessage(decision_of(raw))
              out == node_return(messages, msg)
              next == route(out)
          IN  /\ messages' = IF next = "KeyError" THEN << >> ELSE out
              /\ pc' = IF next = "KeyError" THEN "idle" ELSE next
              /\ turn' = [turn EXCEPT !.visited = Append(@, "Decide"),
                                      !.appended = Append(@, msg),
                                      !.raw = raw,
                                      !.classifier_input = last_user(messages),
                                      !.gen = @ + 1,
                                      !.status = IF next = "KeyError" THEN "aborted" ELSE @,
                                      !.error = IF next = "KeyError" THEN "KeyError" ELSE @]
    /\ UNCHANGED <<chat_keys, chats, current_chat_id, store, nturns>>

\* decide_email_or_search, the classifier call raising
DecideFails ==
    /\ pc = "Decide"
    /\ Raise("Decide", "GenerationError", 1)

\* reject without its return: the node runs on into match.group() / data.get
reject_no_return(text) == [kind |-> "raise", error |-> "AttributeError"]

\* state["messages"].append(SystemMessage(content=text)); return state
reject(text) == [kind |-> "message", text |-> text]

\* lines 145-172 of extract_email_parameters on the answer llm_text: what the node
\* does next: append a text and return, raise, or call send_email_tool
extract_plan(llm_text, at) ==
    LET llm_output == strip(llm_text)
    IN  IF ~HasBraceSpan(llm_output)
        THEN reject(ErrNoJson)
        ELSE LET data == parse_payload(strip(BraceSpan(llm_output)), at)
             IN  IF ~data.ok
                 THEN reject(ErrParsePrefix \o data.e)
                 ELSE IF data.kind # "dict"
                 THEN [kind |-> "raise", error |-> "AttributeError"]
                 ELSE LET to_email == dict_get(data.d, "to", PyNone)
                          subject  == dict_get(data.d, "subject", PyStr(NoSubject))
                          content  == dict_get(data.d, "content", PyStr(<< >>))
                      IN  IF recipient_raises(to_email)
                          THEN [kind |-> "raise", error |-> "TypeError"]
                          ELSE IF recipient_invalid(to_email)
                          THEN reject(ErrRecipient)
                          ELSE [kind |-> "send", to |-> to_email,
                                subject |-> subject, content |-> content]

\* lines 145-176: the plan, with the send carried out
extract_result(llm_text, outcome, at) ==
    LET plan == extract_plan(llm_text, at)
    IN  IF plan.kind = "send"
        THEN LET r == send_email_tool(outcome)
             IN  IF r.kind = "return"
                 THEN [kind |-> "message", text |-> r.text, sent |-> TRUE,
                       call |-> [to |-> plan.to, subject |-> plan.subject,
                                 content |-> plan.content]]
                 ELSE [kind |-> "raise", error |-> "DeliveryError", sent |-> TRUE,
                       call |-> [to |-> plan.to, subject |-> plan.subject,
                                 content |-> plan.content]]
        ELSE IF plan.kind = "message"
        THEN [kind |-> "message", text |-> plan.text, sent |-> FALSE]
        ELSE [kind |-> "raise", error |-> plan.error, sent |-> FALSE]

\* the outcomes to draw from: a send outcome only when the send is reached
OutcomesFor(llm_text) ==
    IF \E at \in ObjectAddresses : extract_plan(llm_text, at).kind = "send"
    THEN SendOutcomes ELSE {NoSend}

\* extract_email_parameters returning; it has no outgoing edge
ExtractEmail ==
    /\ pc = "ExtractEmail"
    /\ \E llm_text \in ExtractOutputs : \E outcome \in OutcomesFor(llm_text) :
      \E at \in ObjectAddresses :
          LET res == extract_result(llm_text, outcome, at)
              msg == SystemMessage(res.text)
          IN  /\ res.kind = "message"
              /\ messages' = node_return(messages, msg)
              /\ turn' = [turn EXCEPT
                     !.visited = Append(@, "ExtractEmail"),
                     !.appended = Append(@, msg),
                     !.gen = @ + 1,
                     !.extract = llm_text,
                     !.extract_input = last_user(messages),
                     !.outcome = outcome,
                     !.sends = IF res.sent THEN Append(@, res.call) ELSE @]
    /\ pc' = "Done"
    /\ UNCHANGED <<chat_keys, chats, current_chat_id, store, nturns>>

\* extract_email_parameters raising after the extraction call returned
ExtractEmailRaises ==
    /\ pc = "ExtractEmail"
    /\ \E llm_text \in ExtractOutputs : \E outcome \in OutcomesFor(llm_text) :
      \E at \in ObjectAddresses :
          LET res == extract_result(llm_text, outcome, at)
          IN  /\ res.kind = "raise"
              /\ pc' = "idle"
              /\ messages' = << >>
              /\ turn' = [turn EXCEPT
                     !.status = "aborted", !.error = res.error,
                     !.visited = Append(@, "ExtractEmail"),
                     !.gen = @ + 1,
                     !.extract = llm_text,
                     !.extract_input = last_user(messages),
                     !.outcome = outcome,
                     !.sends = IF res.sent THEN Append(@, res.call) ELSE @]
    /\ UNCHANGED <<chat_keys, chats, current_chat_id, store, nturns>>

\* extract_email_parameters, the extraction call raising
ExtractEmailFails ==
    /\ pc = "ExtractEmail"
    /\ Raise("ExtractEmail", "GenerationError", 1)

\* tavily_search_node returning; search_node -> llm_call
Search ==
    /\ pc = "Search"
    /\ \E results \in SearchResults :
          LET msg == SystemMessage(search_text(results))
          IN  /\ messages' = node_return(messages, msg)
              /\ turn' = [turn EXCEPT !.visited = Append(@, "Search"),
                                      !.appended = Append(@, msg),
                                      !.query = last_user(messages),
                                      !.results = results,
                                      !.searches = @ + 1]
    /\ pc' = "Answer"
    /\ UNCHANGED <<chat_keys, chats, current_chat_id, store, nturns>>

\* tavily_search_node, the search raising
SearchFails ==
    /\ pc = "Search"
    /\ pc' = "idle"
    /\ messages' = << >>
    /\ turn' = [turn EXCEPT !.status = "aborted", !.error = "SearchError",
                            !.visited = Append(@, "Search"),
                            !.query = last_user(messages),
                            !.searches = @ + 1]
    /\ UNCHANGED <<chat_keys, chats, current_chat_id, store, nturns>>

\* llm_call returning; it has no outgoing edge
Answer ==
    /\ pc = "Answer"
    /\ \E response \in Answers :
          LET msg == AIMessage(response)
          IN  /\ messages' = node_return(messages, msg)
              /\ turn' = [turn EXCEPT !.visited = Append(@, "Answer"),
                                      !.appended = Append(@, msg),
                                      !.prompt = clean_msgs(messages),
                                      !.gen = @ + 1]
    /\ pc' = "Done"
    /\ UNCHANGED <<chat_keys, chats, current_chat_id, store, nturns>>

\* llm_call, the answering call raising
AnswerFails ==
    /\ pc = "Answer"
    /\ Raise("Answer", "GenerationError", 1)

\* lines 288-289: the router's result replaces the transcript, then save_chats
Persist ==
    /\ pc = "Done"
    /\ chats' = [chats EXCEPT ![current_chat_id].messages = messages]
    /\ store' = save_chats(chats')
    /\ pc' = "idle"
    /\ messages' = << >>
    /\ turn' = [turn EXCEPT !.status = "completed"]
    /\ UNCHANGED <<chat_keys, current_chat_id, nturns>>

Next ==
    \/ Rename
    \/ NewChat
    \/ SwitchChat
    \/ ClearChat
    \/ SubmitTurn
    \/ Invoke
    \/ Decide
    \/ DecideFails
    \/ ExtractEmail
    \/ ExtractEmailRaises
    \/ ExtractEmailFails
    \/ Search
    \/ SearchFails
    \/ Answer
    \/ AnswerFails
    \/ Persist

Spec == Init /\ [][Next]_vars

(***************************************************************************)
(* save_chats and load_chats on arbitrary conversations: the dict is        *)
(* written to a file and load_chats is applied to that file.  (A session   *)
(* draws a new user_id, lines 29-32, so its own start never finds a file.) *)
(***************************************************************************)
\* sequences over S of length at most n
SeqsUpTo(S, n) == UNION {[1..k -> S] : k \in 0..n}

\* messages of the three classes, with an empty and a two-line content ("", "a\nb")
StoredMessages == { HumanMessage(<< >>), HumanMessage(<<"a", "\n", "b">>),
                    AIMessage(<<"a", "\n", "b">>), SystemMessage(<< >>) }

\* the conversation a session can hold under id c
ChatRecords(c) ==
    [title : Titles \cup {DefaultTitle(c)}, messages : SeqsUpTo(StoredMessages, MaxStoreLen)]

\* the dicts st.session_state.chats can be
ChatDicts ==
    UNION {{d \in [S -> UNION {ChatRecords(c) : c \in S}] : \A c \in S : d[c] \in ChatRecords(c)}
              : S \in SUBSET ChatIds}

\* the orders in which a dict can hold the ids of S
KeyOrders(S) ==
    {q \in SeqsUpTo(S, Cardinality(S)) :
        /\ Len(q) = Cardinality(S)
        /\ \A i, j \in 1..Len(q) : q[i] = q[j] => i = j}

InitStore ==
    /\ chats \in ChatDicts
    /\ chat_keys \in KeyOrders(DOMAIN chats)
    /\ current_chat_id = << >>
    /\ store = NoChats
    /\ pc = "idle"
    /\ messages = << >>
    /\ turn = NoTurn
    /\ nturns = 0

\* save_chats(CHATS_FILE, st.session_state.chats)
SaveAll ==
    /\ turn.status = "none"
    /\ store' = save_chats(chats)
    /\ turn' = [turn EXCEPT !.status = "saved", !.saved = chats]
    /\ UNCHANGED <<chat_keys, chats, current_chat_id, pc, messages, nturns>>

\* load_chats(CHATS_FILE) on the file just written; the dict it returns
LoadChats ==
    /\ turn.status = "saved"
    /\ turn' = [turn EXCEPT !.status = "loaded", !.loaded = load_chats(store)]
    /\ UNCHANGED <<chat_keys, chats, current_chat_id, store, pc, messages, nturns>>

NextStore ==
    \/ SaveAll
    \/ LoadChats

SpecStore == InitStore /\ [][NextStore]_vars

(***************************************************************************)
(* The router invoked on an arbitrary transcript: agent.invoke(state) for  *)
(* any list of messages, with or without a Human message in it.            *)
(***************************************************************************)
\* messages a transcript can hold: Human "hi" and "SEARCH_RESULT:x", Assistant "4"
\* and "SEARCH_RESULT:y", System "NO_SEARCH" and "SEARCH_RESULT: s1\ns2"
RouterMessages == { HumanMessage(<<"h", "i">>),
                    HumanMessage(<<"S", "E", "A", "R", "C", "H", "_", "R", "E", "S", "U", "L", "T", ":", "x">>),
                    AIMessage(<<"4">>),
                    AIMessage(<<"S", "E", "A", "R", "C", "H", "_", "R", "E", "S", "U", "L", "T", ":", "y">>),
                    SystemMessage(NO_SEARCH),
                    SystemMessage(<<"S", "E", "A", "R", "C", "H", "_", "R", "E", "S", "U", "L", "T", ":", " ", "s", "1", "\n", "s", "2">>) }

InitRouter ==
    /\ \E chat_id \in ChatIds : \E transcript \in SeqsUpTo(RouterMessages, MaxScanLen) :
          /\ chats = (chat_id :> [title |-> DefaultTitle(chat_id), messages |-> transcript])
          /\ chat_keys = <<chat_id>>
          /\ current_chat_id = chat_id
          /\ turn = [NoTurn EXCEPT !.status = "running", !.chat = chat_id,
                                   !.T = transcript]
    /\ store = NoChats
    /\ pc = "Start"
    /\ messages = << >>
    /\ nturns = 0

NextRouter ==
    \/ Invoke
    \/ Decide
    \/ DecideFails
    \/ ExtractEmail
    \/ ExtractEmailRaises
    \/ ExtractEmailFails
    \/ Search
    \/ SearchFails
    \/ Answer
    \/ AnswerFails
    \/ Persist

SpecRouter == InitRouter /\ [][NextRouter]_vars

(***************************************************************************)
(* Properties.                                                             *)
(***************************************************************************)
Last(q) == q[Len(q)]
IsPrefix(a, b) == Len(a) <= Len(b) /\ SubSeq(b, 1, Len(a)) = a
CountCls(q, cls) == Cardinality({i \in 1..Len(q) : q[i].cls = cls})
TurnCompleted == pc = "idle" /\ turn.status = "completed"
TurnAborted == pc = "idle" /\ turn.status = "aborted"
\* the decision label of the turn, once Decide has returned
Decided == turn.appended # << >>
Decision == turn.appended[1].content
\* the transcript of the conversation the turn was submitted to
Transcript == chats[turn.chat].messages

\* C1: after a completed turn the transcript is the transcript before it, then the
\* user's message, then the messages the visited nodes appended, one per visit and in
\* visiting order; the reducer repeats no earlier message.
C1_TranscriptIsTurnDelta ==
    TurnCompleted =>
        /\ Len(turn.appended) = Len(turn.visited)
        /\ Transcript = turn.T \o <<HumanMessage(turn.U)>> \o turn.appended

\* C2: a completed turn routed to NO_SEARCH or SEARCH_REQUIRED leaves exactly one
\* new Assistant message in the transcript, the last one, carrying the response;
\* a turn routed to SEND_EMAIL leaves none.
C2_OneAssistantMessagePerAnswer ==
    TurnCompleted =>
        IF Decision = SEND_EMAIL
        THEN CountCls(Transcript, "AIMessage") = CountCls(turn.T, "AIMessage")
        ELSE /\ CountCls(Transcript, "AIMessage") = CountCls(turn.T, "AIMessage") + 1
             /\ Last(Transcript) = Last(turn.appended)
             /\ Last(Transcript).cls = "AIMessage"
             /\ Last(Transcript).content \in Answers

\* the recipient the extraction answer carries, when it parses to a payload
HasPayload(llm_text) ==
    /\ HasBraceSpan(strip(llm_text))
    /\ \A at \in ObjectAddresses :
          /\ parse_payload(BraceSpan(strip(llm_text)), at).ok
          /\ parse_payload(BraceSpan(strip(llm_text)), at).kind = "dict"
RecipientOf(llm_text) ==
    LET at == CHOOSE a \in ObjectAddresses : TRUE
    IN  dict_get(parse_payload(BraceSpan(strip(llm_text)), at).d, "to", PyNone)
\* a recipient that is a non-empty text with an "@" in it
GoodRecipient(v) == v.t = "str" /\ \E i \in 1..Len(v.s) : v.s[i] = "@"

\* C3: SendEmail is called at most once in a turn, only by ExtractEmail in a turn
\* labelled SEND_EMAIL and only for a non-empty recipient containing "@"; for a
\* missing recipient or one without "@" there is no call and the node appends
\* "SEND_EMAIL_ERROR: Missing or invalid 'to' email address.".
C3_SendOnlyToValidRecipient ==
    /\ Len(turn.sends) <= 1
    /\ turn.sends # << >> =>
          /\ Decision = SEND_EMAIL
          /\ Last(turn.visited) = "ExtractEmail"
          /\ GoodRecipient(turn.sends[1].to)
    /\ (/\ turn.status # "none"
        /\ turn.visited # << >>
        /\ Last(turn.visited) = "ExtractEmail"
        /\ turn.error # "GenerationError"
        /\ HasPayload(turn.extract)
        /\ ~GoodRecipient(RecipientOf(turn.extract))) =>
          /\ turn.sends = << >>
          /\ turn.status # "aborted"
          /\ Len(turn.appended) = 2
          /\ Last(turn.appended) = SystemMessage(ErrRecipient)

\* C4: the label Decide appends is one of the three labels: the raw answer trimmed
\* and upper-cased when that is a label, NO_SEARCH otherwise; the email branch is
\* entered only for a raw answer that normalises to SEND_EMAIL.
C4_DecisionNormalised ==
    Decided =>
        LET norm == upper(strip(turn.raw))
        IN  /\ turn.appended[1].cls = "SystemMessage"
            /\ Decision \in Labels
            /\ norm \in Labels => Decision = norm
            /\ norm \notin Labels => Decision = NO_SEARCH
            /\ turn.raw = <<" ", "s", "e", "n", "d", "_", "e", "m", "a", "i", "l", "\n">> => Decision = SEND_EMAIL
            /\ turn.raw = <<"S", "e", "a", "r", "c", "h", "_", "R", "e", "q", "u", "i", "r", "e", "d">> => Decision = SEARCH_REQUIRED
            /\ turn.raw \in {<<"S", "E", "N", "D", "_", "E", "M", "A", "I", "L", " ", "n", "o", "w">>, <<"m", "a", "y", "b", "e">>, << >>}
                   => Decision = NO_SEARCH
            /\ "ExtractEmail" \in {pc} \cup {turn.visited[i] : i \in 1..Len(turn.visited)}
                   => norm = SEND_EMAIL

\* C4 witness: a raw answer that mentions SEND_EMAIL but is no label was defaulted
C4_Witness ==
    /\ pc = "Answer"
    /\ turn.raw = <<"S", "E", "N", "D", "_", "E", "M", "A", "I", "L", " ", "n", "o", "w">>
    /\ Decision = NO_SEARCH

\* the node sequences of the router, by decision label
PathOf(label) ==
    CASE label = SEND_EMAIL -> <<"Decide", "ExtractEmail">>
      [] label = SEARCH_REQUIRED -> <<"Decide", "Search", "Answer">>
      [] label = NO_SEARCH -> <<"Decide", "Answer">>

\* C5: the router goes Start -> Decide, then to ExtractEmail, Search or Answer by the
\* decision label, Search -> Answer, ExtractEmail -> Done and Answer -> Done: the
\* nodes visited are always a prefix of the label's path, the next node is the next
\* one of that path, and Done is reached exactly at its end.
C5_RouterTransitions ==
    /\ pc \in {"Start", "Decide"} => turn.visited = << >>
    /\ turn.status # "none" /\ Decided =>
          /\ IsPrefix(turn.visited, PathOf(Decision))
          /\ pc \in {"ExtractEmail", "Search", "Answer"} =>
                PathOf(Decision)[Len(turn.visited) + 1] = pc
          /\ (pc = "Done" \/ TurnCompleted) => turn.visited = PathOf(Decision)
    /\ turn.status # "none" /\ ~Decided => turn.visited \in {<< >>, <<"Decide">>}

\* C5 witness: a completed turn went Decide, Search, Answer
C5_Witness ==
    /\ TurnCompleted
    /\ turn.visited = <<"Decide", "Search", "Answer">>

\* the extraction call returned in this turn
Extracted ==
    /\ turn.status # "none"
    /\ turn.visited # << >>
    /\ Last(turn.visited) = "ExtractEmail"
    /\ turn.error # "GenerationError"
\* the answer has no brace span, or its span fails the strict and the relaxed parse
Unparseable(llm_text) ==
    \/ ~HasBraceSpan(strip(llm_text))
    \/ /\ ~json_loads(BraceSpan(strip(llm_text))).ok
       /\ \A at \in ObjectAddresses : ~literal_eval(BraceSpan(strip(llm_text)), at).ok

\* C6: in the email branch, an answer with no brace span, or whose span fails both
\* parses, makes the node append one System message starting with
\* "SEND_EMAIL_ERROR:" and return without a SendEmail call; the turn completes with
\* that message last.
C6_ExtractionFailureIsMessage ==
    (Extracted /\ Unparseable(turn.extract)) =>
        /\ turn.status # "aborted"
        /\ turn.sends = << >>
        /\ Len(turn.appended) = 2
        /\ Last(turn.appended).cls = "SystemMessage"
        /\ startswith(Last(turn.appended).content, ErrPrefix)
        /\ pc \in {"Done", "idle"}
        /\ pc = "Done" => Last(messages) = Last(turn.appended)
        /\ TurnCompleted => Last(Transcript) = Last(turn.appended)

\* C6 witness: a turn completed on a span that neither parse accepts
C6_Witness ==
    /\ TurnCompleted
    /\ turn.extract = SpanBad
    /\ \E at \in ObjectAddresses :
          Last(Transcript) = SystemMessage(ErrParsePrefix \o LiteralErrText(at))

\* "Email sent successfully (status 202)."
Sent202 == <<"E", "m", "a", "i", "l", " ", "s", "e", "n", "t", " ", "s", "u", "c", "c", "e", "s", "s", "f", "u", "l", "l", "y", " ", "(", "s", "t", "a", "t", "u", "s", " ", "2", "0", "2", ")", ".">>

\* C7: with a validated recipient the result of SendEmail is the turn's last message
\* and is never raised: "Email sent successfully (status s)." for a status code s,
\* "Error sending email: e" for a failure e; the turn reaches Done and is persisted.
C7_SendOutcomeIsLastMessage ==
    turn.sends # << >> =>
        LET text == IF turn.outcome.ok
                    THEN SentPrefix \o str(turn.outcome.status_code) \o SentSuffix
                    ELSE SendErrPrefix \o turn.outcome.e
        IN  /\ turn.status # "aborted"
            /\ turn.outcome \in SendOutcomes
            /\ (turn.outcome.ok /\ turn.outcome.status_code = 202) => text = Sent202
            /\ Last(turn.appended) = SystemMessage(text)
            /\ pc \in {"Done", "idle"}
            /\ pc = "Done" => Last(messages) = SystemMessage(text)
            /\ TurnCompleted =>
                  /\ Last(Transcript) = SystemMessage(text)
                  /\ turn.chat \in DOMAIN store
                  /\ Last(store[turn.chat].messages) = [type |-> "system", content |-> text]

\* C7 witness: a send that failed ended the turn as a message and was persisted
C7_Witness ==
    /\ TurnCompleted
    /\ turn.sends # << >>
    /\ ~turn.outcome.ok
    /\ Last(store[turn.chat].messages).content = SendErrPrefix \o turn.outcome.e

\* the turn was aborted by a failing Generate or Search call
CapabilityFailed == TurnAborted /\ turn.error \in {"GenerationError", "SearchError"}

\* C8 as stated: after a failed Generate or Search call the transcript still holds
\* the user's message and the messages of the nodes visited before the failure.
C8_PartialAppendKept ==
    CapabilityFailed =>
        Transcript = turn.T \o <<HumanMessage(turn.U)>> \o turn.appended

\* C8 amended: after a failed Generate or Search call the turn is aborted, and the
\* transcript holds, of this turn, the user's message only: neither the failed
\* node's message nor those of the nodes visited before it.
C8_OnlyUserMessageKept ==
    CapabilityFailed =>
        /\ Transcript = turn.T \o <<HumanMessage(turn.U)>>
        /\ Len(turn.appended) = Len(turn.visited) - 1

\* C8 witness: Search failed after Decide had appended its label, on a transcript
\* that already had messages
C8_Witness ==
    /\ CapabilityFailed
    /\ turn.error = "SearchError"
    /\ turn.appended # << >>
    /\ turn.T # << >>

\* C9: a step that is not the clear operation leaves every conversation's earlier
\* transcript as a prefix of its new one; the clear operation empties the current one.
C9_AppendOnly ==
    [][ /\ ~ClearChat =>
              \A c \in DOMAIN chats :
                  /\ c \in DOMAIN chats'
                  /\ IsPrefix(chats[c].messages, chats'[c].messages)
        /\ ClearChat => chats'[current_chat_id].messages = << >> ]_vars

\* C9 witness: a turn completed on a transcript that already had messages
C9_Witness ==
    /\ TurnCompleted
    /\ turn.T # << >>
    /\ Len(Transcript) > Len(turn.T)

\* C10: after every turn, completed or aborted, the store's record of each
\* conversation has the same (type, content) sequence as the transcript in memory.
C10_StoreMatchesMemory ==
    (TurnCompleted \/ TurnAborted) =>
        \A c \in DOMAIN chats :
            /\ c \in DOMAIN store
            /\ Len(store[c].messages) = Len(chats[c].messages)
            /\ \A i \in 1..Len(chats[c].messages) :
                  /\ store[c].messages[i].type = type(chats[c].messages[i])
                  /\ store[c].messages[i].content = chats[c].messages[i].content

\* C11: loading what save_chats wrote gives back, for every conversation id, the
\* same title and the same sequence of messages, class and content, empty contents
\* and empty transcripts included.
C11_LoadAfterSave ==
    turn.status = "loaded" =>
        /\ turn.saved = chats
        /\ DOMAIN turn.loaded = DOMAIN chats
        /\ \A c \in DOMAIN chats :
              /\ turn.loaded[c].title = chats[c].title
              /\ Len(turn.loaded[c].messages) = Len(chats[c].messages)
              /\ \A i \in 1..Len(chats[c].messages) :
                    /\ turn.loaded[c].messages[i].cls = chats[c].messages[i].cls
                    /\ turn.loaded[c].messages[i].content = chats[c].messages[i].content

\* C11 witness: two conversations were saved and loaded, one empty, the other with
\* an Assistant message and a message of empty content
C11_Witness ==
    /\ turn.status = "loaded"
    /\ DOMAIN turn.loaded = ChatIds
    /\ \E c \in ChatIds : turn.loaded[c].messages = << >>
    /\ \E c \in ChatIds :
          /\ Len(turn.loaded[c].messages) = 2
          /\ turn.loaded[c].messages[1].cls = "AIMessage"
          /\ turn.loaded[c].messages[2] = SystemMessage(<< >>)

\* the last message a node appended tells the outcome of the turn
OutcomeMessage(m) ==
    \/ m.cls = "AIMessage"
    \/ /\ m.cls = "SystemMessage"
       /\ \/ startswith(m.content, ErrPrefix)
          \/ startswith(m.content, SentPrefix)
          \/ startswith(m.content, SendErrPrefix)

\* C12: a turn whose capability calls all return reaches Done after at most three
\* node visits, and at Done the transcript holds, after the user's message and the
\* decision label, a message telling the outcome: an Assistant answer, an email
\* result or a SEND_EMAIL_ERROR text.
C12_TurnEndsWithOutcome ==
    /\ TurnAborted => turn.error \in {"GenerationError", "SearchError"}
    /\ Len(turn.visited) <= 3
    /\ pc = "Done" =>
          /\ Len(turn.appended) >= 2
          /\ OutcomeMessage(Last(turn.appended))
          /\ Last(messages) = Last(turn.appended)
    /\ TurnCompleted =>
          /\ Len(Transcript) > Len(turn.T) + 2
          /\ OutcomeMessage(Last(Transcript))

\* C13: the messages a run of the router adds depend on nothing but the transcript
\* and the capability responses: with the same decision, extraction answer and send
\* outcome, every run of ExtractEmail adds the message this run added, whatever
\* addresses the interpreter gives its objects.
C13_SameInputsSameMessages ==
    (turn.status = "running" /\ pc = "Done" /\ Last(turn.visited) = "ExtractEmail") =>
        \A at \in ObjectAddresses :
            LET res == extract_result(turn.extract, turn.outcome, at)
            IN  /\ res.kind = "message"
                /\ Last(turn.appended) = SystemMessage(res.text)
                /\ turn.visited = PathOf(Decision)

\* the router state a node that has just returned was entered with: the channel is
\* the entered list and the node's message, twice
EnteredWith == SubSeq(messages, 1, (Len(messages) \div 2) - 1)
JustReturned(node) ==
    /\ turn.status = "running"
    /\ turn.visited # << >>
    /\ Last(turn.visited) = node
    /\ pc # "idle"

\* the prompt turns the claim gives one message
ClaimedTurns(m) ==
    IF m.cls = "HumanMessage"
    THEN <<[role |-> "user", content |-> m.content]>>
    ELSE IF m.cls = "SystemMessage" /\ startswith(m.content, SearchMarker)
    THEN <<[role |-> "system",
            content |-> Preamble
                        \o strip(SubSeq(m.content, Len(SearchMarker) + 1, Len(m.content)))]>>
    ELSE << >>
RECURSIVE ClaimedPrompt(_)
ClaimedPrompt(msgs) ==
    IF msgs = << >> THEN << >> ELSE ClaimedTurns(Head(msgs)) \o ClaimedPrompt(Tail(msgs))

\* C14: the prompt of the Answer node is the system instruction, then in transcript
\* order one user turn per User message and one system turn (preamble and the text
\* without the marker) per System message starting with "SEARCH_RESULT:", and
\* nothing for any other message, User and Assistant messages starting with the
\* marker included.
C14_PromptFromTranscript ==
    JustReturned("Answer") =>
        turn.prompt = <<[role |-> "system", content |-> SystemInstruction]>>
                      \o ClaimedPrompt(EnteredWith)

\* the scan's result on msgs, as the claim states it
ScanResult(result, msgs) ==
    LET hs == {i \in 1..Len(msgs) : msgs[i].cls = "HumanMessage"}
    IN  /\ hs = {} => result = << >>
        /\ hs # {} => \E i \in hs : /\ \A j \in (i + 1)..Len(msgs) : j \notin hs
                                    /\ result = msgs[i].content

\* C17: the backward scan of Decide, ExtractEmail and Search gives the content of the
\* User message of greatest index, and the empty text when there is none, whatever
\* System and Assistant messages follow it.
C17_ScanFindsLastUser ==
    /\ JustReturned("Decide") =>
          /\ ScanResult(turn.classifier_input, EnteredWith)
          /\ EnteredWith = chats[current_chat_id].messages
    /\ JustReturned("Search") => ScanResult(turn.query, EnteredWith)
    /\ JustReturned("ExtractEmail") => ScanResult(turn.extract_input, EnteredWith)

\* C17 witness: Search scanned a transcript whose last User message is followed by
\* Assistant and System messages and preceded by another User message
C17_Witness ==
    /\ JustReturned("Search")
    /\ turn.T = <<HumanMessage(<<"S", "E", "A", "R", "C", "H", "_", "R", "E", "S", "U", "L", "T", ":", "x">>),
                  HumanMessage(<<"h", "i">>), AIMessage(<<"4">>)>>
    /\ turn.query = <<"h", "i">>

\* the text of a search message after its marker
AfterMarker(content) == strip(SubSeq(content, Len(SearchMarker) + 1, Len(content)))

\* C15: when Search returns no result, the Search node appends one System message
\* that begins with "SEARCH_RESULT:" and states that no results were found (so it
\* has a text after the marker), and the Answer node then appends one Assistant
\* message.
C15_EmptySearchStated ==
    /\ (JustReturned("Search") /\ turn.results = << >>) =>
          /\ Last(messages).cls = "SystemMessage"
          /\ startswith(Last(messages).content, SearchMarker)
          /\ AfterMarker(Last(messages).content) # << >>
          /\ pc = "Answer"
    /\ (JustReturned("Answer") /\ turn.searches = 1 /\ turn.results = << >>) =>
          /\ Last(messages).cls = "AIMessage"
          /\ EnteredWith \o <<Last(messages)>> = SubSeq(messages, 1, Len(messages) \div 2)

\* the number of times the turn entered a node
Invocations(node) ==
    Cardinality({i \in 1..Len(turn.visited) : turn.visited[i] = node})

\* C16: in every turn Decide is invoked exactly once (once the router has left its
\* entry point, and never twice), each of ExtractEmail, Search and Answer at most
\* once, Generate is called at most twice and Search at most once.
C16_NodeAndCallCounts ==
    turn.status \in {"running", "completed", "aborted"} =>
        /\ Invocations("Decide") <= 1
        /\ pc \notin {"Start", "Decide"} => Invocations("Decide") = 1
        /\ Invocations("ExtractEmail") <= 1
        /\ Invocations("Search") <= 1
        /\ Invocations("Answer") <= 1
        /\ turn.gen <= 2
        /\ turn.searches <= 1

\* C16 witness: a completed turn that called Generate twice and Search once
C16_Witness ==
    /\ TurnCompleted
    /\ Invocations("Decide") = 1
    /\ Invocations("Search") = 1
    /\ Invocations("Answer") = 1
    /\ turn.gen = 2
    /\ turn.searches = 1

\* a turn has been submitted and no sidebar operation has followed it
InTurn == turn.status \in {"running", "completed", "aborted"}

\* C18: in every turn the User message with content U is on the addressed
\* conversation's transcript, as its last message, before the classifier is invoked;
\* the classifier's Generate call receives U; the router is invoked exactly once; and
\* during a turn the durable store is written only by the step that leaves Done.
C18_TurnOrder ==
    /\ [](InTurn =>
            /\ pc \in {"Start", "Decide"} =>
                  Transcript = Append(turn.T, HumanMessage(turn.U))
            /\ Decided => turn.classifier_input = turn.U
            /\ pc = "Start" => turn.invokes = 0
            /\ pc # "Start" => turn.invokes = 1)
    /\ [][(pc # "idle" /\ store' # store) => (pc = "Done" /\ pc' = "idle")]_vars

\* C18 witness: a completed and saved turn in a conversation whose transcript already
\* held another User message
C18_Witness ==
    /\ TurnCompleted
    /\ turn.invokes = 1
    /\ turn.classifier_input = turn.U
    /\ \E i \in 1..Len(turn.T) :
          turn.T[i].cls = "HumanMessage" /\ turn.T[i].content # turn.U
    /\ turn.chat \in DOMAIN store
    /\ store[turn.chat].messages # << >>

\* C19: when Decide returns, the last message of the router state is the System
\* message carrying the decision label, whatever the transcript before it holds, so
\* the conditional edge reads one of the three labels, finds it in its map and
\* dispatches to the label's node.
C19_EdgeReadsLabel ==
    /\ JustReturned("Decide") =>
          /\ Last(messages) = SystemMessage(Decision)
          /\ Last(messages).content \in Labels
          /\ pc = PathOf(Decision)[2]
    /\ turn.error # "KeyError"

\* C19 witness: Decide returned the default label on a transcript that ends with a
\* search-result message and holds no User message
C19_Witness ==
    /\ JustReturned("Decide")
    /\ turn.T # << >>
    /\ startswith(Last(turn.T).content, SearchMarker)
    /\ \A i \in 1..Len(turn.T) : turn.T[i].cls # "HumanMessage"
    /\ upper(strip(turn.raw)) \notin Labels
    /\ Last(messages).content = NO_SEARCH
    /\ pc = "Answer"

\* a step leaves conversation c as it was, in memory and, if the store holds it, in
\* the store
Untouched(c) ==
    /\ c \in DOMAIN chats'
    /\ chats'[c] = chats[c]
    /\ c \in DOMAIN store => c \in DOMAIN store' /\ store'[c] = store[c]

\* C20: a step of a turn, a clear or a rename (the steps that keep the current
\* conversation) leaves the title and messages of every other conversation unchanged
\* in memory and in the store; a new chat adds one conversation with an empty
\* transcript and its default title and changes no existing conversation.
C20_OtherConversationsUntouched ==
    [][/\ current_chat_id' = current_chat_id =>
             \A c \in DOMAIN chats \ {current_chat_id} : Untouched(c)
       /\ DOMAIN chats' # DOMAIN chats =>
             /\ \E new_id \in DOMAIN chats' \ DOMAIN chats :
                   /\ DOMAIN chats' = DOMAIN chats \cup {new_id}
                   /\ chats'[new_id] = [title |-> DefaultTitle(new_id), messages |-> << >>]
             /\ \A c \in DOMAIN chats : Untouched(c)]_vars
====
